---- MODULE Spec2Model ----
(***************************************************************************)
(* Music Battle backend (server.js): the Elo rating engine, the SQLite     *)
(* tables it keeps (songs, votes, personal_ratings, genre_affinity), the   *)
(* session store of express-session, and the two request handlers          *)
(* GET /api/battle (matchmaking) and POST /api/vote (outcome processing).  *)
(*                                                                         *)
(* Node runs one handler at a time and better-sqlite3 is synchronous, so   *)
(* a handler body is one atomic step.  The session middleware reads the    *)
(* stored session when the request passes through it and defers the        *)
(* handler, and it writes the session back when the response ends: two     *)
(* requests can therefore both have read the session before either         *)
(* handler runs.                                                           *)
(*                                                                         *)
(* Browser client (script.js): the battle on display, the vote buttons,    *)
(* and the fetches and timers it has pending.                              *)
(***************************************************************************)
EXTENDS Integers, Sequences, FiniteSets, TLC

VARIABLES songs, votes, personal_ratings, genre_affinity, sessions, req, restarts, failures,
          client

vars == <<songs, votes, personal_ratings, genre_affinity, sessions, req, restarts, failures,
          client>>

dbvars == <<songs, votes, personal_ratings, genre_affinity>>

----------------------------------------------------------------------------
(* Bounds of the model *)

\* how many songs of initialSongs the modelled catalog holds
NSongs == 3
\* how many rows the votes table may reach
MaxVotes == 2
\* how many times the server is started again
MaxRestarts == 1
\* how many storage failures are injected in a run
MaxFailures == 1
\* how many rows the votes table may reach in the single-session runs
MaxSessionVotes == 15
\* how many times one session votes for the same song over the same other song
MaxLadderVotes == 17
\* how many rows the votes table may reach in the runs of two sessions voting in turn
MaxCrossVotes == 3
\* how many battles the browser client requests
MaxBattles == 3
\* how many votes the browser client sends
MaxClientVotes == 3

----------------------------------------------------------------------------
(* Program constants *)

DefaultElo == 1500
KFactor == 32
Window1 == 150
Window2 == 300
RecencyCap == 10

\* a sample of initialSongs, in id order of the ids kept
CatalogIds == <<1, 2, 7, 11>>

SongIds == {CatalogIds[i] : i \in 1..NSongs}

\* every id of the sample, seeded or not
SampleIds == {CatalogIds[i] : i \in 1..Len(CatalogIds)}

genreMap == [id \in {1, 2, 7, 11} |->
               CASE id = 1 -> "pop"
                 [] id = 2 -> "pop"
                 [] id = 7 -> "alternative"
                 [] id = 11 -> "hip-hop"]

Genres == {"pop", "alternative", "hip-hop"}

\* session ids (req.sessionID) and the requests that can be in flight together
Sids == {"s1", "s2"}
Slots == {"r1", "r2"}

\* request bodies <<winnerId, loserId>>: any two catalog ids, and bodies with an
\* id absent (0: undefined, null and 0 are all falsy) or an id no song has (99)
ValidBodies == SongIds \X SongIds
BadBodies == {<<0, 1>>, <<1, 0>>, <<99, 1>>, <<1, 99>>}
DistinctBodies == {b \in ValidBodies : b[1] # b[2]}

----------------------------------------------------------------------------
(* Rating engine *)

\* EloGainThresholds[k] is the largest winnerRating - loserRating for which
\* Math.round(rating + 32 * (1 - expectedWin)) - rating >= k, with
\* expectedWin = 1 / (1 + 10^((loserRating - winnerRating) / 400)) evaluated
\* in IEEE doubles.  No integer difference puts 32 * (1 - expectedWin) within
\* 0.0007 of a half, so the winner's and the loser's roundings, made
\* independently, move by the same number of points.
EloGainThresholds ==
  << 719, 523, 428, 364, 314, 273, 237, 205, 176, 149, 124, 100, 77, 54, 32, 10,
     -11, -33, -55, -78, -101, -125, -150, -177, -206, -238, -274, -315, -365,
     -429, -524, -720 >>

RoundedGainLinear(winnerRating, loserRating) ==
  KFactor \div 2 - (winnerRating - loserRating) \div 25

\* Math.round(kFactor * (1 - expectedWin)) for kFactor = 32
RoundedGain(winnerRating, loserRating) ==
  Cardinality({k \in 1..KFactor : winnerRating - loserRating <= EloGainThresholds[k]})

\* EloLossThresholds[k]: the largest winnerRating - loserRating for which
\* loserRating - Math.round(loserRating + kFactor * (0 - expectedLose)) is at
\* least k, from the same evaluation in doubles.  Math.round is applied to the
\* two ratings separately; no difference in -3000..3000 puts kFactor *
\* expectedLose within 0.0007 of a half, so the two roundings never part.
EloLossThresholds ==
  << 719, 523, 428, 364, 314, 273, 237, 205, 176, 149, 124, 100, 77, 54, 32, 10,
     -11, -33, -55, -78, -101, -125, -150, -177, -206, -238, -274, -315, -365,
     -429, -524, -720 >>

RoundedLossFromLoserSide(winnerRating, loserRating) ==
  Cardinality({k \in 1..KFactor : loserRating - winnerRating <= EloLossThresholds[k]})

\* -Math.round(kFactor * (0 - expectedLose)) for kFactor = 32
RoundedLoss(winnerRating, loserRating) ==
  Cardinality({k \in 1..KFactor : winnerRating - loserRating <= EloLossThresholds[k]})

calculateEloEvenOdds(winnerRating, loserRating) ==
  [newWinnerRating |-> winnerRating + KFactor \div 2,
   newLoserRating  |-> loserRating - KFactor \div 2]

calculateElo(winnerRating, loserRating) ==
  [newWinnerRating |-> winnerRating + RoundedGain(winnerRating, loserRating),
   newLoserRating  |-> loserRating - RoundedLoss(winnerRating, loserRating)]

----------------------------------------------------------------------------
(* Tables *)

NoRating == [present |-> FALSE, elo |-> 0, battles |-> 0, wins |-> 0]
NoAffinity == [present |-> FALSE, wins |-> 0, total_battles |-> 0]
NoSession == [state |-> "none", recentBattles |-> <<>>]

\* a row as INSERT INTO songs (...) leaves it: the Elo columns take their defaults
SeedRow == [global_elo |-> DefaultElo, prev_elo |-> DefaultElo, total_battles |-> 0,
            total_wins |-> 0, votes |-> 0, genre |-> "untagged"]

EmptyTable == [id \in {} |-> SeedRow]

\* UPDATE songs SET genre = ? WHERE id = ? AND genre = 'untagged', for each id of genreMap
ApplyGenres(tbl) ==
  [id \in DOMAIN tbl |->
     IF id \in DOMAIN genreMap /\ tbl[id].genre = "untagged"
       THEN [tbl[id] EXCEPT !.genre = genreMap[id]]
       ELSE tbl[id]]

\* seed songs if the table is empty
SeedSongs(tbl) ==
  IF Cardinality(DOMAIN tbl) = 0 THEN [id \in SongIds |-> SeedRow] ELSE tbl

\* the rows of the votes table in which the song is the winner or the loser
BattlesIn(log, id) ==
  Cardinality({i \in DOMAIN log : log[i][1] = id}) + Cardinality({i \in DOMAIN log : log[i][2] = id})

HasEloColumnsNever(tbl) == FALSE

\* columns.includes('global_elo'): a songs table from before the Elo columns has
\* rows with the votes column only (a table without rows migrates to itself)
HasEloColumns(tbl) == \A id \in DOMAIN tbl : "global_elo" \in DOMAIN tbl[id]

\* the migration: the Elo columns are added with their defaults, total_wins is
\* copied from votes and total_battles counted from the votes table
Migrate(tbl, log) ==
  IF HasEloColumns(tbl) THEN tbl
  ELSE [id \in DOMAIN tbl |->
          [global_elo |-> DefaultElo, prev_elo |-> DefaultElo,
           total_battles |-> BattlesIn(log, id), total_wins |-> tbl[id].votes,
           votes |-> tbl[id].votes, genre |-> "untagged"]]

\* the statements server.js runs at startup, in their order: migration, genres,
\* then seeding
Startup(tbl, log) == SeedSongs(ApplyGenres(Migrate(tbl, log)))

\* The page as onYouTubeIframeAPIReady leaves it: no battle on display (0), the
\* vote buttons enabled, the first battle being fetched.  Battles are numbered in
\* the order they come on display; the client counts, for each, the vote requests
\* it has in flight, those answered and those failed.
PageOpened == [currentBattle |-> 0, disabled |-> FALSE, loading |-> 1, timers |-> 0,
               inFlight |-> [b \in 1..MaxBattles |-> 0],
               answered |-> [b \in 1..MaxBattles |-> 0],
               failed |-> [b \in 1..MaxBattles |-> 0]]

IdleReq == [phase |-> "idle", kind |-> "none", sid |-> "s1", session |-> <<>>,
            winnerId |-> 0, loserId |-> 0, status |-> 0, elo |-> 0, eloChange |-> 0,
            left |-> 0, right |-> 0, leftElo |-> 0, rightElo |-> 0, wildcard |-> FALSE,
            initWinner |-> 0, initLoser |-> 0]

Init ==
  /\ songs = Startup(EmptyTable, <<>>)
  /\ votes = <<>>
  /\ personal_ratings = [k \in Sids \X SongIds |-> NoRating]
  /\ genre_affinity = [k \in Sids \X Genres |-> NoAffinity]
  /\ sessions = [s \in Sids |-> NoSession]
  /\ req = [r \in Slots |-> IdleReq]
  /\ restarts = 0
  /\ failures = 0
  /\ client = PageOpened

----------------------------------------------------------------------------
(* Session middleware *)

InFlight(r) == req[r].phase = "loaded"

\* request r is a battle that has been answered
BattleAnswered(r) == req[r].phase = "done" /\ req[r].kind = "battle"

\* The request passes the session middleware: the stored session is read (a copy
\* per request), or a new session is generated when the request carries none.
\* A generated id belongs to that one request until a response hands it out.
Arrive(r, kind, sid, winnerId, loserId) ==
  /\ req[r].phase \in {"idle", "done"}
  /\ sessions[sid].state # "lost"
  /\ sessions[sid].state = "none" => \A q \in Slots \ {r} : ~(InFlight(q) /\ req[q].sid = sid)
  /\ req' = [req EXCEPT ![r] = [IdleReq EXCEPT !.phase = "loaded", !.kind = kind, !.sid = sid,
                                               !.session = sessions[sid].recentBattles,
                                               !.winnerId = winnerId, !.loserId = loserId]]
  /\ UNCHANGED <<dbvars, sessions, restarts, failures, client>>

ArriveBattle(r, sids) ==
  \E sid \in sids : Arrive(r, "battle", sid, 0, 0)

ArriveVote(r, sids, bodies) ==
  \E sid \in sids, body \in bodies : Arrive(r, "vote", sid, body[1], body[2])

SaveSessionEverywhere(store, sid, session, modified) ==
  IF modified \/ store[sid].state = "none"
    THEN [s \in DOMAIN store |-> [state |-> "live", recentBattles |-> session]]
    ELSE store

\* The response ends: a modified session is written back whole, a new one is
\* stored even when unmodified (saveUninitialized), an unmodified one is left.
SaveSession(store, sid, session, modified) ==
  IF modified \/ store[sid].state = "none"
    THEN [store EXCEPT ![sid] = [state |-> "live", recentBattles |-> session]]
    ELSE store

----------------------------------------------------------------------------
(* GET /api/battle *)

Abs(x) == IF x < 0 THEN -x ELSE x

recentSongIds(recentBattles) ==
  {recentBattles[i][1] : i \in 1..Len(recentBattles)} \cup
  {recentBattles[i][2] : i \in 1..Len(recentBattles)}

ShufflesAscending(S) ==
  {p \in [1..Cardinality(S) -> S] : \A i, j \in 1..Cardinality(S) : i < j => p[i] < p[j]}

\* the orders allSongs.sort(random comparator) can leave the rows in
Shuffles(S) ==
  {p \in [1..Cardinality(S) -> S] : \A i, j \in 1..Cardinality(S) : p[i] = p[j] => i = j}

\* array[i] of JavaScript, counted from 1: undefined (0) beyond the array's end
At(array, i) == IF i \in DOMAIN array THEN array[i] ELSE 0

\* array[Math.floor(Math.random() * array.length)]: any element, undefined (0) if there is none
Pick(S) == IF S = {} THEN {0} ELSE S

TooFewNone(allSongs) == Cardinality(allSongs) < 1

\* allSongs.length < 2
TooFew(allSongs) == Cardinality(allSongs) < 2

AvailableWithoutFallback(allSongs, recentBattles) ==
  {s \in allSongs : s \notin recentSongIds(recentBattles)}

AvailableUnfiltered(allSongs, recentBattles) == allSongs

\* songs not recently battled, or all songs when fewer than 2 are left
Available(allSongs, recentBattles) ==
  LET available == {s \in allSongs : s \notin recentSongIds(recentBattles)}
  IN IF Cardinality(available) < 2 THEN allSongs ELSE available

EffectiveEloGlobal(sid, id) == songs[id].global_elo

\* personal Elo first, then global
EffectiveElo(sid, id) ==
  IF personal_ratings[<<sid, id>>].present
    THEN personal_ratings[<<sid, id>>].elo
    ELSE songs[id].global_elo

WithinKeepingSeed(sid, available, seed, window) ==
  {s \in available : Abs(EffectiveElo(sid, s) - EffectiveElo(sid, seed)) <= window}

Within(sid, available, seed, window) ==
  {s \in available : s # seed /\ Abs(EffectiveElo(sid, s) - EffectiveElo(sid, seed)) <= window}

CandidatesInWindows(sid, available, seed) ==
  IF Within(sid, available, seed, Window1) # {} THEN Within(sid, available, seed, Window1)
  ELSE Within(sid, available, seed, Window2)

\* opponents within 150, else within 300, else anyone except the seed
Candidates(sid, available, seed) ==
  IF Within(sid, available, seed, Window1) # {} THEN Within(sid, available, seed, Window1)
  ELSE IF Within(sid, available, seed, Window2) # {} THEN Within(sid, available, seed, Window2)
  ELSE {s \in available : s # seed}

\* the global_elo column of a row sent in the response (0: no row)
SentElo(id) == IF id \in DOMAIN songs THEN songs[id].global_elo ELSE 0

BattleReplyRecording(r, status, left, right, wildcard) ==
  /\ req' = [req EXCEPT ![r] = [@ EXCEPT !.phase = "done", !.status = status, !.left = left,
                                         !.right = right, !.leftElo = SentElo(left),
                                         !.rightElo = SentElo(right), !.wildcard = wildcard]]
  /\ sessions' = SaveSession(sessions, req[r].sid,
                              Append(req[r].session, <<left, right>>), status = 200)
  /\ UNCHANGED <<dbvars, restarts, failures, client>>

\* res.json({ left: ..., right: ... }) with the songs' rows, or the error response
BattleReply(r, status, left, right, wildcard) ==
  /\ req' = [req EXCEPT ![r] = [@ EXCEPT !.phase = "done", !.status = status, !.left = left,
                                         !.right = right, !.leftElo = SentElo(left),
                                         !.rightElo = SentElo(right), !.wildcard = wildcard]]
  /\ sessions' = SaveSession(sessions, req[r].sid, req[r].session, FALSE)
  /\ UNCHANGED <<dbvars, restarts, failures, client>>

BattleTooFew(r) ==
  /\ TooFew(DOMAIN songs)
  /\ BattleReply(r, 500, 0, 0, FALSE)

BattleWildcard(r) ==
  /\ ~TooFew(DOMAIN songs)
  /\ \E shuffled \in Shuffles(DOMAIN songs) :
       BattleReply(r, 200, At(shuffled, 1), At(shuffled, 2), TRUE)

BattleMatched(r) ==
  /\ ~TooFew(DOMAIN songs)
  /\ LET available == Available(DOMAIN songs, req[r].session)
     IN \E seed \in available :
          \E opponent \in Pick(Candidates(req[r].sid, available, seed)) :
            \/ BattleReply(r, 200, seed, opponent, FALSE)
            \/ BattleReply(r, 200, opponent, seed, FALSE)

HandleBattle(r) ==
  /\ InFlight(r)
  /\ req[r].kind = "battle"
  /\ (BattleTooFew(r) \/ BattleWildcard(r) \/ BattleMatched(r))

----------------------------------------------------------------------------
(* POST /api/vote *)

\* the statements of the handler that write to the database, in their order:
\*  1 INSERT INTO votes                 2 UPDATE songs SET votes = votes + 1
\*  3, 4 UPDATE songs SET prev_elo      5, 6 UPDATE songs SET global_elo, counters
\*  7, 8 INSERT INTO personal_ratings   9, 10 UPDATE personal_ratings
\*  11, 12 INSERT INTO genre_affinity ... ON CONFLICT DO UPDATE
VoteSteps == 1..12

Db == [songs |-> songs, votes |-> votes, personal_ratings |-> personal_ratings,
       genre_affinity |-> genre_affinity]

VoteValidIdsGiven(tbl, winnerId, loserId) == winnerId # 0 /\ loserId # 0

VoteValidIfOffered(tbl, winnerId, loserId) ==
  /\ winnerId # 0 /\ loserId # 0
  /\ winnerId \in DOMAIN tbl /\ loserId \in DOMAIN tbl
  /\ \E r \in Slots : BattleAnswered(r) /\ {req[r].left, req[r].right} = {winnerId, loserId}

\* the checks that let a body through: both ids given, both rows found
VoteValid(tbl, winnerId, loserId) ==
  /\ winnerId # 0 /\ loserId # 0
  /\ winnerId \in DOMAIN tbl /\ loserId \in DOMAIN tbl

GlobalResultFromPrevElo(winner, loser) == calculateElo(winner.prev_elo, loser.prev_elo)

\* calculateElo(winner.global_elo, loser.global_elo) on the rows read before the first write
GlobalResult(winner, loser) == calculateElo(winner.global_elo, loser.global_elo)

SavePrevEloSkipped(row) == row

\* UPDATE songs SET prev_elo = global_elo
SavePrevElo(row) == [row EXCEPT !.prev_elo = row.global_elo]

GlobalWinnerRowWithoutWin(row, newRating) ==
  [row EXCEPT !.global_elo = newRating, !.total_battles = @ + 1]

\* UPDATE songs SET global_elo = ?, total_battles = total_battles + 1, total_wins = total_wins + 1
GlobalWinnerRow(row, newRating) ==
  [row EXCEPT !.global_elo = newRating, !.total_battles = @ + 1, !.total_wins = @ + 1]

GlobalLoserRowAsWinner(row, newRating) ==
  [row EXCEPT !.global_elo = newRating, !.total_battles = @ + 1, !.total_wins = @ + 1]

\* UPDATE songs SET global_elo = ?, total_battles = total_battles + 1
GlobalLoserRow(row, newRating) ==
  [row EXCEPT !.global_elo = newRating, !.total_battles = @ + 1]

InitialPersonalEloStored(snapshot, stored) == stored.global_elo

\* The Elo a new personal_ratings row starts at.  snapshot is the song as the
\* handler read it before its first write, stored the song's row at the INSERT.
InitialPersonalElo(snapshot, stored) == snapshot.global_elo

NewPersonalRowCounted(elo) == [present |-> TRUE, elo |-> elo, battles |-> 1, wins |-> 0]

\* INSERT INTO personal_ratings (session_id, song_id, elo, battles, wins) VALUES (?, ?, ?, 0, 0)
NewPersonalRow(elo) == [present |-> TRUE, elo |-> elo, battles |-> 0, wins |-> 0]

NeedsInsertAlways(row) == TRUE

\* if (!personalWinner), if (!personalLoser): the SELECT found no row
NeedsInsert(row) == ~row.present

PersonalResultFromGlobal(winner, loser, personalWinner, personalLoser) ==
  calculateElo(winner.global_elo, loser.global_elo)

\* calculateElo(personalWinner.elo, personalLoser.elo), with the song rows in scope
PersonalResult(winner, loser, personalWinner, personalLoser) ==
  calculateElo(personalWinner.elo, personalLoser.elo)

\* UPDATE personal_ratings SET elo = ?, battles = battles + 1, wins = wins + 1
PersonalWinnerRow(row, newRating) ==
  [row EXCEPT !.elo = newRating, !.battles = @ + 1, !.wins = @ + 1]

\* UPDATE personal_ratings SET elo = ?, battles = battles + 1
PersonalLoserRow(row, newRating) ==
  [row EXCEPT !.elo = newRating, !.battles = @ + 1]

UpsertAffinityReplacing(row, won) == [present |-> TRUE, wins |-> won, total_battles |-> 1]

\* INSERT INTO genre_affinity ... VALUES (?, ?, won, 1) ON CONFLICT DO UPDATE
UpsertAffinity(row, won) ==
  IF row.present
    THEN [row EXCEPT !.wins = @ + won, !.total_battles = @ + 1]
    ELSE [present |-> TRUE, wins |-> won, total_battles |-> 1]

Tagged(song) == song.genre # "untagged"

\* What the handler holds in local variables.  winner and loser are the rows read
\* before the first write; personalWinner and personalLoser are read after the
\* global update, from a table no earlier statement of the handler writes, and
\* stand for the row to be inserted when there is none.
VoteLocals(db, sid, winnerId, loserId) ==
  LET winner == db.songs[winnerId]
      loser == db.songs[loserId]
      rowWinner == db.personal_ratings[<<sid, winnerId>>]
      rowLoser == db.personal_ratings[<<sid, loserId>>]
      personalWinner == IF rowWinner.present THEN rowWinner
                        ELSE NewPersonalRow(winner.global_elo)
      personalLoser == IF rowLoser.present THEN rowLoser
                       ELSE NewPersonalRow(loser.global_elo)
  IN [sid |-> sid, winnerId |-> winnerId, loserId |-> loserId,
      winner |-> winner, loser |-> loser,
      globalResult |-> GlobalResult(winner, loser),
      insertWinner |-> NeedsInsert(rowWinner), insertLoser |-> NeedsInsert(rowLoser),
      personalResult |-> PersonalResult(winner, loser, personalWinner, personalLoser)]

\* whether statement k is executed at all
StepRuns(k, c) ==
  CASE k = 7 -> c.insertWinner
    [] k = 8 -> c.insertLoser
    [] k = 11 -> Tagged(c.winner)
    [] k = 12 -> Tagged(c.loser)
    [] OTHER -> TRUE

\* whether statement k throws of itself: an INSERT of a (session_id, song_id)
\* that is already a row violates the table's primary key
StepThrows(k, db, c) ==
  \/ k = 7 /\ db.personal_ratings[<<c.sid, c.winnerId>>].present
  \/ k = 8 /\ db.personal_ratings[<<c.sid, c.loserId>>].present

\* the database after statement k
VoteStep(k, db, c) ==
  CASE k = 1 -> [db EXCEPT !.votes = Append(@, <<c.winnerId, c.loserId>>)]
    [] k = 2 -> [db EXCEPT !.songs[c.winnerId].votes = @ + 1]
    [] k = 3 -> [db EXCEPT !.songs[c.winnerId] = SavePrevElo(@)]
    [] k = 4 -> [db EXCEPT !.songs[c.loserId] = SavePrevElo(@)]
    [] k = 5 -> [db EXCEPT !.songs[c.winnerId] =
                              GlobalWinnerRow(@, c.globalResult.newWinnerRating)]
    [] k = 6 -> [db EXCEPT !.songs[c.loserId] =
                              GlobalLoserRow(@, c.globalResult.newLoserRating)]
    [] k = 7 -> [db EXCEPT !.personal_ratings[<<c.sid, c.winnerId>>] =
                              NewPersonalRow(InitialPersonalElo(c.winner, db.songs[c.winnerId]))]
    [] k = 8 -> [db EXCEPT !.personal_ratings[<<c.sid, c.loserId>>] =
                              NewPersonalRow(InitialPersonalElo(c.loser, db.songs[c.loserId]))]
    [] k = 9 -> [db EXCEPT !.personal_ratings[<<c.sid, c.winnerId>>] =
                              PersonalWinnerRow(@, c.personalResult.newWinnerRating)]
    [] k = 10 -> [db EXCEPT !.personal_ratings[<<c.sid, c.loserId>>] =
                              PersonalLoserRow(@, c.personalResult.newLoserRating)]
    [] k = 11 -> [db EXCEPT !.genre_affinity[<<c.sid, c.winner.genre>>] = UpsertAffinity(@, 1)]
    [] k = 12 -> [db EXCEPT !.genre_affinity[<<c.sid, c.loser.genre>>] = UpsertAffinity(@, 0)]

\* The statements k..last, run in order on db; statement failAt, when reached,
\* fails in the storage layer (0: none does).  Every statement commits by itself, so what was
\* written before a throw stays written.
RECURSIVE RunVote(_, _, _, _, _)
RunVote(k, last, db, c, failAt) ==
  IF k > last THEN [db |-> db, threw |-> FALSE, injected |-> FALSE]
  ELSE IF ~StepRuns(k, c) THEN RunVote(k + 1, last, db, c, failAt)
  ELSE IF StepThrows(k, db, c) THEN [db |-> db, threw |-> TRUE, injected |-> FALSE]
  ELSE IF k = failAt THEN [db |-> db, threw |-> TRUE, injected |-> TRUE]
  ELSE RunVote(k + 1, last, VoteStep(k, db, c), c, failAt)

\* the Elo of the personal_ratings row of (c.sid, id) if the handler has inserted
\* it, as it stands in db (0: the handler inserted none)
InsertedElo(db, c, inserts, id) ==
  IF inserts /\ db.personal_ratings[<<c.sid, id>>].present
    THEN db.personal_ratings[<<c.sid, id>>].elo
    ELSE 0

\* the statements after the INSERTs into personal_ratings, which left mid
FinishVote(c, mid, failAt) ==
  LET ran == IF mid.threw THEN mid ELSE RunVote(9, 12, mid.db, c, failAt)
  IN [db |-> ran.db, threw |-> ran.threw, injected |-> ran.injected,
      initWinner |-> InsertedElo(mid.db, c, c.insertWinner, c.winnerId),
      initLoser |-> InsertedElo(mid.db, c, c.insertLoser, c.loserId)]

\* The handler's statements on db for an accepted body.  A body whose ids are no rows of songs would
\* fail the foreign keys of the votes table at its INSERT.
ProcessVote(db, sid, winnerId, loserId, failAt) ==
  IF winnerId \notin DOMAIN db.songs \/ loserId \notin DOMAIN db.songs
    THEN [db |-> db, threw |-> TRUE, injected |-> FALSE, initWinner |-> 0, initLoser |-> 0]
    ELSE FinishVote(VoteLocals(db, sid, winnerId, loserId),
                    RunVote(1, 8, db, VoteLocals(db, sid, winnerId, loserId), failAt), failAt)

PushRecentShiftingAtCap(recentBattles, winnerId, loserId) ==
  LET pushed == Append(recentBattles, <<winnerId, loserId>>)
  IN IF Len(pushed) >= RecencyCap THEN Tail(pushed) ELSE pushed

\* req.session.recentBattles.push([winnerId, loserId]), then shift() above 10 entries
PushRecent(recentBattles, winnerId, loserId) ==
  LET pushed == Append(recentBattles, <<winnerId, loserId>>)
  IN IF Len(pushed) > RecencyCap THEN Tail(pushed) ELSE pushed

VoteReply(r, status, elo, eloChange, initWinner, initLoser, session, modified) ==
  /\ req' = [req EXCEPT ![r] = [@ EXCEPT !.phase = "done", !.status = status, !.elo = elo,
                                         !.eloChange = eloChange, !.session = session,
                                         !.initWinner = initWinner, !.initLoser = initLoser]]
  /\ sessions' = SaveSession(sessions, req[r].sid, session, modified)

\* 400: an id is absent, or is no row of songs; nothing has been written
VoteRejected(r) ==
  /\ ~VoteValid(songs, req[r].winnerId, req[r].loserId)
  /\ VoteReply(r, 400, 0, 0, 0, 0, req[r].session, FALSE)
  /\ UNCHANGED <<dbvars, restarts, failures, client>>

\* 200 with the winner's row as read back, or 500 when a statement threw
VoteAccepted(r, failAt, maxVotes) ==
  /\ VoteValid(songs, req[r].winnerId, req[r].loserId)
  /\ Len(votes) < maxVotes
  /\ \E ran \in {ProcessVote(Db, req[r].sid, req[r].winnerId, req[r].loserId, failAt)} :
        /\ failAt # 0 => (ran.injected /\ failures < MaxFailures)
        /\ songs' = ran.db.songs
        /\ votes' = ran.db.votes
        /\ personal_ratings' = ran.db.personal_ratings
        /\ genre_affinity' = ran.db.genre_affinity
        /\ failures' = IF ran.injected THEN failures + 1 ELSE failures
        /\ IF ran.threw
             THEN VoteReply(r, 500, 0, 0, ran.initWinner, ran.initLoser, req[r].session, FALSE)
             ELSE VoteReply(r, 200, ran.db.songs[req[r].winnerId].global_elo,
                            ran.db.songs[req[r].winnerId].global_elo
                              - ran.db.songs[req[r].winnerId].prev_elo,
                            ran.initWinner, ran.initLoser,
                            PushRecent(req[r].session, req[r].winnerId, req[r].loserId), TRUE)
        /\ UNCHANGED <<restarts, client>>

HandleVote(r, failAt, maxVotes) ==
  /\ InFlight(r)
  /\ req[r].kind = "vote"
  /\ (VoteRejected(r) \/ VoteAccepted(r, failAt, maxVotes))

----------------------------------------------------------------------------
(* The server is stopped and started again *)

\* The database file is kept and the startup statements run on it; the sessions,
\* held in the server's memory, and the requests in flight are lost.
Restart ==
  /\ restarts < MaxRestarts
  /\ restarts' = restarts + 1
  /\ songs' = Startup(songs, votes)
  /\ sessions' = [s \in Sids |-> IF sessions[s].state = "none" THEN sessions[s]
                                  ELSE [state |-> "lost", recentBattles |-> <<>>]]
  /\ req' = [r \in Slots |-> IdleReq]
  /\ UNCHANGED <<votes, personal_ratings, genre_affinity, failures, client>>

----------------------------------------------------------------------------
(* Browser client *)

servervars == <<songs, votes, personal_ratings, genre_affinity, sessions, req, restarts, failures>>

\* vote requests sent by the client so far
VotesSent ==
  LET RECURSIVE Sum(_)
      Sum(b) == IF b = 0 THEN 0
                ELSE client.inFlight[b] + client.answered[b] + client.failed[b] + Sum(b - 1)
  IN Sum(MaxBattles)

\* battles on display so far, which is the number of the one on display
BattlesLoaded == client.currentBattle

StartLoad(c) == [c EXCEPT !.loading = @ + 1]

\* loadNextBattle up to its await: the fetch of /api/battle is sent
CanLoad == BattlesLoaded + client.loading < MaxBattles

\* what undoes the disabling of the vote buttons when a vote request fails
Reenable(c) == [c EXCEPT !.disabled = FALSE]

\* vote(side), from a click on an enabled vote button: the buttons are disabled
\* and the request is sent for the battle on display
VoteClick ==
  /\ ~client.disabled
  /\ client.currentBattle # 0
  /\ VotesSent < MaxClientVotes
  /\ client' = [client EXCEPT !.disabled = TRUE, !.inFlight[client.currentBattle] = @ + 1]
  /\ UNCHANGED servervars

\* the vote request for battle b is answered: the 3 s timer for the next battle is set
VoteAnswered(b) ==
  /\ client.inFlight[b] > 0
  /\ client' = [client EXCEPT !.inFlight[b] = @ - 1, !.answered[b] = @ + 1, !.timers = @ + 1]
  /\ UNCHANGED servervars

\* the vote request for battle b fails (fetch rejects, or the body is no JSON):
\* the catch block enables the vote buttons again
VoteFailed(b) ==
  /\ client.inFlight[b] > 0
  /\ failures < MaxFailures
  /\ failures' = failures + 1
  /\ client' = Reenable([client EXCEPT !.inFlight[b] = @ - 1, !.failed[b] = @ + 1])
  /\ UNCHANGED <<songs, votes, personal_ratings, genre_affinity, sessions, req, restarts>>

\* the timer set by an answered vote fires: loadNextBattle()
TimerFires ==
  /\ client.timers > 0
  /\ CanLoad
  /\ client' = StartLoad([client EXCEPT !.timers = @ - 1])
  /\ UNCHANGED servervars

\* skip(): loadNextBattle()
SkipClick ==
  /\ CanLoad
  /\ client' = StartLoad(client)
  /\ UNCHANGED servervars

\* loadNextBattle after its awaits: the battle fetched comes on display and the
\* vote buttons are enabled
BattleLoaded ==
  /\ client.loading > 0
  /\ client' = [client EXCEPT !.loading = @ - 1, !.currentBattle = @ + 1, !.disabled = FALSE]
  /\ UNCHANGED servervars

NextClient ==
  \/ VoteClick
  \/ \E b \in 1..MaxBattles : VoteAnswered(b)
  \/ \E b \in 1..MaxBattles : VoteFailed(b)
  \/ TimerFires
  \/ SkipClick
  \/ BattleLoaded

SpecClient == Init /\ [][NextClient]_vars

----------------------------------------------------------------------------
(* Specifications *)

\* one request at a time, any body, no storage failure
Next ==
  \/ ArriveBattle("r1", Sids)
  \/ ArriveVote("r1", Sids, ValidBodies \cup BadBodies)
  \/ HandleBattle("r1")
  \/ HandleVote("r1", 0, MaxVotes)
  \/ Restart

Spec == Init /\ [][Next]_vars

\* two requests in flight together: votes naming two different songs, and a vote
\* naming none, which is answered 400 and leaves its session stored
NextConc ==
  \E r \in Slots :
    \/ ArriveVote(r, Sids, DistinctBodies \cup {<<0, 0>>})
    \/ HandleVote(r, 0, MaxVotes)

SpecConc == Init /\ [][NextConc]_vars

\* one request at a time; a statement of the vote handler may fail in the storage layer
NextFail ==
  \/ ArriveVote("r1", Sids, DistinctBodies \cup BadBodies)
  \/ \E failAt \in {0} \cup VoteSteps : HandleVote("r1", failAt, MaxVotes)
  \/ Restart

SpecFail == Init /\ [][NextFail]_vars

\* one session voting many times, one request at a time
RecencyBodies == {<<1, 2>>, <<2, 1>>}

NextRecency ==
  \/ ArriveVote("r1", {"s1"}, RecencyBodies)
  \/ HandleVote("r1", 0, MaxSessionVotes)

SpecRecency == Init /\ [][NextRecency]_vars

\* The server started on a database file that holds no song, one song, two or
\* four; one request at a time, battles of both sessions, and one session voting
\* for song 1 over song 2 until their ratings are more than 300 apart.
FileCatalogs == {{}, {1}, {1, 2}, SampleIds}

FileTable(ids) == [id \in ids |-> SeedRow]

InitBattle ==
  /\ \E ids \in FileCatalogs : songs = Startup(FileTable(ids), <<>>)
  /\ votes = <<>>
  /\ personal_ratings = [k \in Sids \X SampleIds |-> NoRating]
  /\ genre_affinity = [k \in Sids \X Genres |-> NoAffinity]
  /\ sessions = [s \in Sids |-> NoSession]
  /\ req = [r \in Slots |-> IdleReq]
  /\ restarts = 0
  /\ failures = 0
  /\ client = PageOpened

LadderBodies == {<<1, 2>>}

NextBattle ==
  \/ ~InFlight("r2") /\ ArriveBattle("r1", Sids)
  \/ HandleBattle("r1")
  \/ ~InFlight("r1") /\ ArriveVote("r2", {"s1"}, LadderBodies)
  \/ HandleVote("r2", 0, MaxLadderVotes)

SpecBattle == InitBattle /\ [][NextBattle]_vars

\* two sessions voting in turn on songs they share, one request at a time; the
\* genres are there once the server has been started again
CrossBodies == {<<1, 2>>, <<2, 1>>, <<2, 7>>}

NextCross ==
  \/ ArriveVote("r1", Sids, CrossBodies)
  \/ HandleVote("r1", 0, MaxCrossVotes)
  \/ Restart

SpecCross == Init /\ [][NextCross]_vars

\* The rating engine on chosen inputs: songs 1 and 2 have come to hold two of
\* these global ratings, and one session votes on the two, one request at a time.
\* The server started on a database file written before the Elo columns existed:
\* songs 1, 2 and 7 with their votes column, and the votes recorded until then.
\* Then one request at a time, votes of both sessions, and a restart.
LegacyLogs == {<<>>, << <<1, 2>> >>, << <<1, 2>>, <<1, 7>> >>}

LegacyTable(log) ==
  [id \in {1, 2, 7} |-> [votes |-> Cardinality({i \in DOMAIN log : log[i][1] = id})]]

InitLegacy ==
  /\ \E log \in LegacyLogs : songs = Startup(LegacyTable(log), log) /\ votes = log
  /\ personal_ratings = [k \in Sids \X SongIds |-> NoRating]
  /\ genre_affinity = [k \in Sids \X Genres |-> NoAffinity]
  /\ sessions = [s \in Sids |-> NoSession]
  /\ req = [r \in Slots |-> IdleReq]
  /\ restarts = 0
  /\ failures = 0
  /\ client = PageOpened

SpecLegacy == InitLegacy /\ [][NextCross]_vars

RatingInputs == {700, 1400, 1500, 1600, 2300}

RatedTable(rating1, rating2) ==
  [Startup(EmptyTable, <<>>) EXCEPT ![1].global_elo = rating1, ![1].prev_elo = rating1,
                              ![2].global_elo = rating2, ![2].prev_elo = rating2]

InitElo ==
  /\ \E rating1, rating2 \in RatingInputs : songs = RatedTable(rating1, rating2)
  /\ votes = <<>>
  /\ personal_ratings = [k \in Sids \X SongIds |-> NoRating]
  /\ genre_affinity = [k \in Sids \X Genres |-> NoAffinity]
  /\ sessions = [s \in Sids |-> NoSession]
  /\ req = [r \in Slots |-> IdleReq]
  /\ restarts = 0
  /\ failures = 0
  /\ client = PageOpened

NextElo ==
  \/ ArriveVote("r1", {"s1"}, RecencyBodies)
  \/ HandleVote("r1", 0, MaxVotes)

SpecElo == InitElo /\ [][NextElo]_vars

\* Matchmaking at the edges of the rating windows: songs 1 and 2 have come to hold
\* two of these global ratings, song 7 holds 1500; battles of both sessions and
\* votes of both for song 1 over song 2, one request at a time.
WindowInputs == {1500, 1640, 1650, 1651, 1800, 1801}

InitWindow ==
  /\ \E rating1, rating2 \in WindowInputs : songs = RatedTable(rating1, rating2)
  /\ votes = <<>>
  /\ personal_ratings = [k \in Sids \X SongIds |-> NoRating]
  /\ genre_affinity = [k \in Sids \X Genres |-> NoAffinity]
  /\ sessions = [s \in Sids |-> NoSession]
  /\ req = [r \in Slots |-> IdleReq]
  /\ restarts = 0
  /\ failures = 0
  /\ client = PageOpened

NextWindow ==
  \/ ~InFlight("r2") /\ ArriveBattle("r1", Sids)
  \/ HandleBattle("r1")
  \/ ~InFlight("r1") /\ ArriveVote("r2", Sids, LadderBodies)
  \/ HandleVote("r2", 0, MaxVotes)

SpecWindow == InitWindow /\ [][NextWindow]_vars

----------------------------------------------------------------------------
(* Properties *)

\* request r is answered in this step
Handled(r) == InFlight(r) /\ req'[r].phase = "done"

VoteHandled(r) == Handled(r) /\ req[r].kind = "vote"

VoteDone(r) == req[r].phase = "done" /\ req[r].kind = "vote"

BattleDone(r) == BattleAnswered(r)

StoredRecent(sid) == sessions[sid].recentBattles

\* C1: a vote whose winnerId equals its loserId, the id being a song's, is
\* answered 400 and changes nothing: no table and not the session's recent battles.
C1_EqualIdsRejected ==
  [][\A r \in Slots :
       (VoteHandled(r) /\ req[r].winnerId = req[r].loserId /\ req[r].winnerId \in DOMAIN songs)
         => /\ req'[r].status = 400
            /\ UNCHANGED dbvars
            /\ StoredRecent(req[r].sid)' = StoredRecent(req[r].sid)]_vars

\* C2: a battle never offers the same song on both sides.
C2_DistinctPair ==
  \A r \in Slots : (BattleDone(r) /\ req[r].status = 200) => req[r].left # req[r].right

\* a matched (not wildcard) battle answered for a session that has voted, whose
\* recent battles name all songs but one, so that the filter falls back
C2_Witness ==
  \E r \in Slots :
    /\ BattleDone(r) /\ req[r].status = 200 /\ ~req[r].wildcard
    /\ Cardinality(SongIds \ recentSongIds(req[r].session)) < 2
    /\ personal_ratings[<<req[r].sid, req[r].left>>].present
    /\ req[r].left # req[r].right

\* C3: an answered vote for two different songs adds 1 to the winner's
\* total_battles and total_wins and 1 to the loser's total_battles, and leaves the
\* loser's total_wins and every other song's counters as they were.
C3_GlobalCounters ==
  [][\A r \in Slots :
       (VoteHandled(r) /\ req'[r].status = 200 /\ req[r].winnerId # req[r].loserId)
         => LET w == req[r].winnerId
                l == req[r].loserId
            IN /\ songs'[w].total_battles = songs[w].total_battles + 1
               /\ songs'[w].total_wins = songs[w].total_wins + 1
               /\ songs'[l].total_battles = songs[l].total_battles + 1
               /\ songs'[l].total_wins = songs[l].total_wins
               /\ \A id \in DOMAIN songs \ {w, l} :
                    /\ songs'[id].total_battles = songs[id].total_battles
                    /\ songs'[id].total_wins = songs[id].total_wins]_vars

\* an answered vote whose winner had lost before and whose loser had won before
C3_Witness ==
  \E r \in Slots :
    /\ VoteDone(r) /\ req[r].status = 200 /\ req[r].winnerId # req[r].loserId
    /\ songs[req[r].winnerId].total_battles = 2 /\ songs[req[r].winnerId].total_wins = 1
    /\ songs[req[r].loserId].total_battles = 2 /\ songs[req[r].loserId].total_wins = 1

Min(a, b) == IF a < b THEN a ELSE b

LastN(seq, n) == SubSeq(seq, Len(seq) - n + 1, Len(seq))

\* C4: with one session voting, its stored recent battles never exceed 10 entries
\* and are the last min(n, 10) of the n votes recorded, in the order recorded.
C4_RecencyLastTen ==
  \A sid \in Sids :
    sessions[sid].state = "live"
      => /\ Len(StoredRecent(sid)) <= RecencyCap
         /\ StoredRecent(sid) = LastN(votes, Min(Len(votes), RecencyCap))

\* 15 votes recorded, the stored sequence being votes 6 to 15, whose first entry
\* differs from the vote evicted last
C4_Witness ==
  /\ Len(votes) = 15
  /\ StoredRecent("s1") = SubSeq(votes, 6, 15)
  /\ votes[5] # votes[6]

\* what one vote after another does to the songs table
SerialVote(tbl, w, l) ==
  LET result == calculateElo(tbl[w].global_elo, tbl[l].global_elo)
  IN [id \in DOMAIN tbl |->
        IF id = w
          THEN [tbl[w] EXCEPT !.prev_elo = tbl[w].global_elo,
                              !.global_elo = result.newWinnerRating,
                              !.total_battles = @ + 1, !.total_wins = @ + 1, !.votes = @ + 1]
        ELSE IF id = l
          THEN [tbl[l] EXCEPT !.prev_elo = tbl[l].global_elo,
                              !.global_elo = result.newLoserRating,
                              !.total_battles = @ + 1]
        ELSE tbl[id]]

RECURSIVE Serial(_, _)
Serial(tbl, log) ==
  IF log = <<>> THEN tbl
  ELSE Serial(SerialVote(tbl, Head(log)[1], Head(log)[2]), Tail(log))

\* C5: whatever the interleaving of two requests, every song's rating, previous
\* rating and counters are those of the recorded votes run one after the other,
\* in the order of the votes table, from the seeded catalog.
C5_NoLostUpdate == songs = Serial(Startup(EmptyTable, <<>>), votes)

\* two votes of one session answered, both read the session before either was
\* handled, and the winner of one is a song of the other
C5_Witness ==
  \E r1, r2 \in Slots :
    /\ r1 # r2 /\ VoteDone(r1) /\ VoteDone(r2)
    /\ req[r1].status = 200 /\ req[r2].status = 200
    /\ req[r1].sid = req[r2].sid
    /\ Len(req[r1].session) = 1 /\ Len(req[r2].session) = 1
    /\ req[r1].winnerId = req[r2].loserId
    /\ Len(votes) = 2
    /\ songs[req[r1].winnerId].global_elo # DefaultElo

\* C6: when two votes of one session have both been answered, the session's
\* stored recent battles hold the pairs of both, and at most 10 entries.
C6_SessionSerialized ==
  \A r1, r2 \in Slots :
    (/\ r1 # r2 /\ VoteDone(r1) /\ VoteDone(r2)
     /\ req[r1].status = 200 /\ req[r2].status = 200
     /\ req[r1].sid = req[r2].sid)
      => /\ \E i \in 1..Len(StoredRecent(req[r1].sid)) :
              StoredRecent(req[r1].sid)[i] = <<req[r1].winnerId, req[r1].loserId>>
         /\ \E i \in 1..Len(StoredRecent(req[r2].sid)) :
              StoredRecent(req[r2].sid)[i] = <<req[r2].winnerId, req[r2].loserId>>
         /\ Len(StoredRecent(req[r1].sid)) <= RecencyCap

\* C7: a vote answered 500, a statement of it having failed, leaves no write of
\* its own: the tables and the session's recent battles are as before it.
C7_AllOrNothing ==
  [][\A r \in Slots :
       (VoteHandled(r) /\ req'[r].status = 500)
         => /\ UNCHANGED dbvars
            /\ StoredRecent(req[r].sid)' = StoredRecent(req[r].sid)]_vars

\* C8: a vote with an id absent, or with an id that is no song's, is answered 400
\* and nothing is written: the tables and the session's recent battles are unchanged.
C8_BadBodyRejected ==
  [][\A r \in Slots :
       (/\ VoteHandled(r)
        /\ \/ req[r].winnerId = 0 \/ req[r].loserId = 0
           \/ req[r].winnerId \notin DOMAIN songs \/ req[r].loserId \notin DOMAIN songs)
         => /\ req'[r].status = 400
            /\ UNCHANGED dbvars
            /\ StoredRecent(req[r].sid)' = StoredRecent(req[r].sid)]_vars

\* a vote naming an unknown song answered 400 for a session that has voted before
C8_Witness ==
  \E r \in Slots :
    /\ VoteDone(r) /\ req[r].status = 400
    /\ req[r].loserId = 99
    /\ Len(votes) > 0 /\ Len(StoredRecent(req[r].sid)) > 0

\* C9 as stated: a personal rating created by a vote starts at the song's global
\* rating as stored when the row is created, that is after the vote's global update.
C9_StartsAtStoredGlobal ==
  [][\A r \in Slots :
       (VoteHandled(r) /\ req'[r].status = 200)
         => /\ req'[r].initWinner # 0
                 => req'[r].initWinner = songs'[req[r].winnerId].global_elo
            /\ req'[r].initLoser # 0
                 => req'[r].initLoser = songs'[req[r].loserId].global_elo]_vars

\* C9 as amended: a personal rating created by a vote starts at the song's global
\* rating as it was stored before the vote, not as the vote's global update left it.
C9_StartsAtGlobalBeforeVote ==
  [][\A r \in Slots :
       VoteHandled(r)
         => /\ req'[r].initWinner # 0
                 => req'[r].initWinner = songs[req[r].winnerId].global_elo
            /\ req'[r].initLoser # 0
                 => req'[r].initLoser = songs[req[r].loserId].global_elo]_vars

\* a session's first vote on two songs whose global ratings an earlier vote moved
C9_Witness ==
  \E r \in Slots :
    /\ VoteDone(r) /\ req[r].status = 200
    /\ req[r].initWinner # 0 /\ req[r].initWinner # DefaultElo
    /\ req[r].initLoser # 0 /\ req[r].initLoser # DefaultElo
    /\ req[r].initWinner # songs[req[r].winnerId].global_elo

\* C10: an answered vote returns the winner's global rating as stored after it, and
\* as change that rating minus the winner's rating before the vote; prev_elo of
\* the winner and of the loser is their global rating before the vote.
C10_ReplyAndPrevElo ==
  [][\A r \in Slots :
       (VoteHandled(r) /\ req'[r].status = 200)
         => LET w == req[r].winnerId
                l == req[r].loserId
            IN /\ req'[r].elo = songs'[w].global_elo
               /\ req'[r].eloChange = songs'[w].global_elo - songs[w].global_elo
               /\ songs'[w].prev_elo = songs[w].global_elo
               /\ songs'[l].prev_elo = songs[l].global_elo]_vars

\* an answered vote between two songs that had battled before and were rated apart
C10_Witness ==
  \E r \in Slots :
    /\ VoteDone(r) /\ req[r].status = 200 /\ req[r].winnerId # req[r].loserId
    /\ songs[req[r].winnerId].prev_elo # DefaultElo
    /\ songs[req[r].loserId].prev_elo # DefaultElo
    /\ req[r].eloChange # 16
    /\ req[r].eloChange = songs[req[r].winnerId].global_elo - songs[req[r].winnerId].prev_elo

\* request r is a battle that has passed the session middleware and awaits its handler
BattleWaiting(r) == InFlight(r) /\ req[r].kind = "battle"

\* the songs the session read by request r has not battled recently
NotRecent(r) == DOMAIN songs \ recentSongIds(req[r].session)

\* how far apart the global ratings of the two rows sent to request r are
SentGap(r) == Abs(req[r].leftElo - req[r].rightElo)

\* C11: with at least 2 songs in the catalog, whatever the session's recent battles
\* and the ratings, a battle waiting for its handler has at least 2 available
\* songs and, for every seed, a non-empty set of opponents, all of the catalog and
\* none the seed; and an answered battle has status 200 and two songs of the catalog.
C11_PairAlwaysFound ==
  \A r \in Slots :
    Cardinality(DOMAIN songs) >= 2
      => /\ BattleWaiting(r)
              => /\ Cardinality(Available(DOMAIN songs, req[r].session)) >= 2
                 /\ \A seed \in Available(DOMAIN songs, req[r].session) :
                      /\ Candidates(req[r].sid, Available(DOMAIN songs, req[r].session), seed) # {}
                      /\ Candidates(req[r].sid, Available(DOMAIN songs, req[r].session), seed)
                            \subseteq DOMAIN songs \ {seed}
         /\ BattleDone(r)
              => /\ req[r].status = 200
                 /\ req[r].left \in DOMAIN songs
                 /\ req[r].right \in DOMAIN songs

\* a matched battle answered for a session whose recent battles name every song,
\* the two songs sent being rated more than 300 apart: both fallbacks were taken
C11_Witness ==
  \E r \in Slots :
    /\ BattleDone(r) /\ req[r].status = 200 /\ ~req[r].wildcard
    /\ req[r].sid = "s1"
    /\ NotRecent(r) = {}
    /\ SentGap(r) > Window2
    /\ req[r].left \in DOMAIN songs /\ req[r].right \in DOMAIN songs

\* C12: with exactly 2 songs in the catalog, every answered battle has status 200
\* and its two sides are the two songs, whatever the session's recent battles and
\* however far apart the two ratings.
C12_TwoSongCatalog ==
  \A r \in Slots :
    (BattleDone(r) /\ Cardinality(DOMAIN songs) = 2)
      => /\ req[r].status = 200
         /\ {req[r].left, req[r].right} = DOMAIN songs

\* a matched battle on a 2-song catalog, sent lower-rated song first, the ratings
\* more than 300 apart, to a session that has never voted
C12_Witness ==
  \E r \in Slots :
    /\ BattleDone(r) /\ req[r].status = 200 /\ ~req[r].wildcard
    /\ Cardinality(DOMAIN songs) = 2
    /\ req[r].sid = "s2" /\ req[r].session = <<>>
    /\ req[r].rightElo - req[r].leftElo > Window2
    /\ {req[r].left, req[r].right} = DOMAIN songs

\* C19: with fewer than 2 songs in the catalog, every answered battle has status
\* 500 and carries no song on either side; neither the wildcard branch nor the
\* matching branch answers it.
C19_TooFewSongs ==
  \A r \in Slots :
    (BattleDone(r) /\ Cardinality(DOMAIN songs) < 2)
      => /\ req[r].status = 500
         /\ req[r].left = 0 /\ req[r].right = 0
         /\ ~req[r].wildcard

\* a battle answered 500 on a 1-song catalog, for a session that a response has
\* already handed its id
C19_Witness ==
  \E r \in Slots :
    /\ BattleDone(r) /\ req[r].status = 500
    /\ Cardinality(DOMAIN songs) = 1
    /\ req[r].left = 0 /\ req[r].right = 0
    /\ sessions[req[r].sid].state = "live"

\* the personal rating the vote handler resolves for (sid, id): the stored one, or
\* the song's global rating where the session has none
Resolved(sid, id) ==
  IF personal_ratings[<<sid, id>>].present
    THEN personal_ratings[<<sid, id>>].elo
    ELSE songs[id].global_elo

\* C13: an answered vote of a session leaves every other session as it was: its
\* personal ratings and counters, its genre affinity rows and its stored recent battles.
C13_OtherSessionsUntouched ==
  [][\A r \in Slots :
       VoteHandled(r)
         => \A s \in Sids \ {req[r].sid} :
              /\ \A id \in SongIds :
                   personal_ratings'[<<s, id>>] = personal_ratings[<<s, id>>]
              /\ \A g \in Genres : genre_affinity'[<<s, g>>] = genre_affinity[<<s, g>>]
              /\ sessions'[s] = sessions[s]]_vars

\* a vote answered for a session while the other session holds a personal rating
\* of the winner that differs from the voter's, an affinity row and a recent battle
C13_Witness ==
  \E r \in Slots : \E s \in Sids \ {req[r].sid} :
    /\ VoteDone(r) /\ req[r].status = 200
    /\ personal_ratings[<<s, req[r].winnerId>>].present
    /\ personal_ratings[<<s, req[r].winnerId>>].elo
         # personal_ratings[<<req[r].sid, req[r].winnerId>>].elo
    /\ \E g \in Genres : genre_affinity[<<s, g>>].present
    /\ Len(StoredRecent(s)) = 1

\* C14: an answered vote for two different songs stores as the session's personal
\* ratings of the two what the rating engine gives for the session's personal
\* ratings resolved before it (the stored one, or the global rating where absent),
\* not what it gives for the global ratings.
C14_PersonalFromPersonal ==
  [][\A r \in Slots :
       (VoteHandled(r) /\ req'[r].status = 200 /\ req[r].winnerId # req[r].loserId)
         => LET sid == req[r].sid
                w == req[r].winnerId
                l == req[r].loserId
                result == calculateElo(Resolved(sid, w), Resolved(sid, l))
            IN /\ personal_ratings'[<<sid, w>>].elo = result.newWinnerRating
               /\ personal_ratings'[<<sid, l>>].elo = result.newLoserRating]_vars

\* a vote of a session that rated both songs before, answered after the other
\* session has voted: the personal ratings differ from the global ones
C14_Witness ==
  \E r \in Slots :
    /\ VoteDone(r) /\ req[r].status = 200 /\ req[r].winnerId # req[r].loserId
    /\ req[r].initWinner = 0 /\ req[r].initLoser = 0
    /\ personal_ratings[<<req[r].sid, req[r].winnerId>>].elo
         # songs[req[r].winnerId].global_elo
    /\ personal_ratings[<<req[r].sid, req[r].loserId>>].elo
         # songs[req[r].loserId].global_elo

\* C15: an answered vote for two different songs adds 1 to the session's personal
\* battles of the winner and of the loser and 1 to its personal wins of the
\* winner, and leaves its personal wins of the loser; a row it creates counts from 0.
C15_PersonalCounters ==
  [][\A r \in Slots :
       (VoteHandled(r) /\ req'[r].status = 200 /\ req[r].winnerId # req[r].loserId)
         => LET w == <<req[r].sid, req[r].winnerId>>
                l == <<req[r].sid, req[r].loserId>>
            IN /\ personal_ratings'[w].present /\ personal_ratings'[l].present
               /\ personal_ratings'[w].battles = personal_ratings[w].battles + 1
               /\ personal_ratings'[w].wins = personal_ratings[w].wins + 1
               /\ personal_ratings'[l].battles = personal_ratings[l].battles + 1
               /\ personal_ratings'[l].wins = personal_ratings[l].wins]_vars

\* a vote whose winner the session had rated twice before, winning once, and whose
\* loser's row the vote created
C15_Witness ==
  \E r \in Slots :
    /\ VoteDone(r) /\ req[r].status = 200 /\ req[r].winnerId # req[r].loserId
    /\ req[r].initWinner = 0 /\ req[r].initLoser # 0
    /\ personal_ratings[<<req[r].sid, req[r].winnerId>>].battles = 3
    /\ personal_ratings[<<req[r].sid, req[r].winnerId>>].wins = 2
    /\ personal_ratings[<<req[r].sid, req[r].loserId>>].battles = 1
    /\ personal_ratings[<<req[r].sid, req[r].loserId>>].wins = 0

\* 1 if the song counts for the genre, 0 if its genre is another one or 'untagged'
CountsFor(song, genre) == IF Tagged(song) /\ song.genre = genre THEN 1 ELSE 0

\* C16: an answered vote for two different songs adds, to the session's affinity
\* row of each genre, 1 win and 1 battle if the genre is the winner's and 1 battle
\* if it is the loser's (1 win and 2 battles when it is both), creating the row
\* when absent; an 'untagged' song adds nothing and creates no row.
C16_GenreAffinity ==
  [][\A r \in Slots :
       (VoteHandled(r) /\ req'[r].status = 200 /\ req[r].winnerId # req[r].loserId)
         => \A g \in Genres :
              LET old == genre_affinity[<<req[r].sid, g>>]
                  new == genre_affinity'[<<req[r].sid, g>>]
                  asWinner == CountsFor(songs[req[r].winnerId], g)
                  asLoser == CountsFor(songs[req[r].loserId], g)
              IN /\ new.wins = old.wins + asWinner
                 /\ new.total_battles = old.total_battles + asWinner + asLoser
                 /\ new.present = (old.present \/ asWinner + asLoser > 0)]_vars

\* a vote between two songs of one genre, answered for a session whose row of
\* that genre an earlier vote created
C16_Witness ==
  \E r \in Slots :
    /\ VoteDone(r) /\ req[r].status = 200 /\ req[r].winnerId # req[r].loserId
    /\ Tagged(songs[req[r].winnerId])
    /\ songs[req[r].winnerId].genre = songs[req[r].loserId].genre
    /\ genre_affinity[<<req[r].sid, songs[req[r].winnerId].genre>>].wins = 2
    /\ genre_affinity[<<req[r].sid, songs[req[r].winnerId].genre>>].total_battles = 3

\* C17: a vote that finds the session's personal rating of a song already stored
\* writes no initial row for it, keeps the row, and, when it is answered 200 for
\* two different songs, computes from the stored value: a rating resolved by an
\* earlier vote that stopped before its rating update is resolved to the same
\* value again, and no (session, song) row is inserted twice.
C17_ResolvedOnce ==
  [][\A r \in Slots :
       VoteHandled(r)
         => LET sid == req[r].sid
                w == req[r].winnerId
                l == req[r].loserId
                answered == req'[r].status = 200 /\ w # l
            IN /\ (w \in SongIds /\ personal_ratings[<<sid, w>>].present)
                    => /\ req'[r].initWinner = 0
                       /\ personal_ratings'[<<sid, w>>].present
                       /\ answered
                            => personal_ratings'[<<sid, w>>].elo
                                 = calculateElo(personal_ratings[<<sid, w>>].elo,
                                                Resolved(sid, l)).newWinnerRating
               /\ (l \in SongIds /\ personal_ratings[<<sid, l>>].present)
                    => /\ req'[r].initLoser = 0
                       /\ personal_ratings'[<<sid, l>>].present
                       /\ answered
                            => personal_ratings'[<<sid, l>>].elo
                                 = calculateElo(Resolved(sid, w),
                                                personal_ratings[<<sid, l>>].elo).newLoserRating]_vars

\* a vote answered 200 that inserted no row, both rows having been inserted by an
\* earlier vote of the session that failed before its personal rating update
C17_Witness ==
  \E r \in Slots :
    /\ VoteDone(r) /\ req[r].status = 200 /\ req[r].winnerId # req[r].loserId
    /\ failures = 1
    /\ req[r].initWinner = 0 /\ req[r].initLoser = 0
    /\ personal_ratings[<<req[r].sid, req[r].winnerId>>].battles = 1
    /\ personal_ratings[<<req[r].sid, req[r].loserId>>].battles = 1
    /\ personal_ratings[<<req[r].sid, req[r].winnerId>>].elo
         # songs[req[r].winnerId].global_elo

\* C18: a vote naming two different songs of the catalog is answered 200 and
\* applies every update (the votes row, the global ratings and counters, the
\* session's personal rows, its recent battles), whatever battle the session was
\* sent before: none at all, or one between other songs.
C18_NoOfferCheck ==
  [][\A r \in Slots :
       (/\ VoteHandled(r)
        /\ req[r].winnerId \in DOMAIN songs /\ req[r].loserId \in DOMAIN songs
        /\ req[r].winnerId # req[r].loserId)
         => LET sid == req[r].sid
                w == req[r].winnerId
                l == req[r].loserId
            IN /\ req'[r].status = 200
               /\ votes' = Append(votes, <<w, l>>)
               /\ songs' = SerialVote(songs, w, l)
               /\ personal_ratings'[<<sid, w>>].battles = personal_ratings[<<sid, w>>].battles + 1
               /\ personal_ratings'[<<sid, l>>].battles = personal_ratings[<<sid, l>>].battles + 1
               /\ StoredRecent(sid)' = PushRecent(req[r].session, w, l)]_vars

\* the first vote of a session answered 200, the one battle sent to that session
\* before it having been between two songs that are not the two voted on
C18_Witness ==
  \E b, v \in Slots :
    /\ BattleDone(b) /\ req[b].status = 200
    /\ VoteDone(v) /\ req[v].status = 200
    /\ req[b].sid = req[v].sid
    /\ req[b].session = <<>> /\ Len(votes) = 1
    /\ StoredRecent(req[v].sid) = << <<req[v].winnerId, req[v].loserId>> >>
    /\ {req[b].left, req[b].right} # {req[v].winnerId, req[v].loserId}

\* C20: with k = 32 the rating engine turns winner and loser ratings (1500, 1500)
\* into (1516, 1484) and (1600, 1400) into (1608, 1392): a vote answered 200 for
\* two songs so rated stores these global ratings.
C20_EngineExamples ==
  [][\A r \in Slots :
       (VoteHandled(r) /\ req'[r].status = 200 /\ req[r].winnerId # req[r].loserId)
         => LET w == req[r].winnerId
                l == req[r].loserId
            IN /\ (songs[w].global_elo = 1500 /\ songs[l].global_elo = 1500)
                    => (songs'[w].global_elo = 1516 /\ songs'[l].global_elo = 1484)
               /\ (songs[w].global_elo = 1600 /\ songs[l].global_elo = 1400)
                    => (songs'[w].global_elo = 1608 /\ songs'[l].global_elo = 1392)]_vars

\* a vote answered 200 whose winner was rated 1600 and whose loser 1400
C20_Witness ==
  \E r \in Slots :
    /\ VoteDone(r) /\ req[r].status = 200 /\ req[r].winnerId # req[r].loserId
    /\ songs[req[r].winnerId].prev_elo = 1600 /\ songs[req[r].loserId].prev_elo = 1400
    /\ songs[req[r].winnerId].global_elo = 1608 /\ songs[req[r].loserId].global_elo = 1392
    /\ req[r].eloChange = 8

\* C21: a matched (not wildcard) battle sends two songs that are not among the
\* songs of the session's recent battles when at least 2 songs of the catalog are
\* not among them, and two songs of the catalog when fewer than 2 are not.
C21_RecentExcluded ==
  \A r \in Slots :
    (BattleDone(r) /\ req[r].status = 200 /\ ~req[r].wildcard)
      => IF Cardinality(NotRecent(r)) >= 2
           THEN /\ req[r].left \in NotRecent(r)
                /\ req[r].right \in NotRecent(r)
           ELSE /\ req[r].left \in DOMAIN songs
                /\ req[r].right \in DOMAIN songs

\* a matched battle sent to a session whose 10 recent battles name two songs of
\* a catalog of four: the two others are sent
C21_Witness ==
  \E r \in Slots :
    /\ BattleDone(r) /\ req[r].status = 200 /\ ~req[r].wildcard
    /\ Len(req[r].session) = RecencyCap
    /\ Cardinality(recentSongIds(req[r].session)) = 2
    /\ Cardinality(NotRecent(r)) = 2
    /\ {req[r].left, req[r].right} = NotRecent(r)

\* request r is a battle answered in this step with two songs, by the matching branch
BattleMatchedNow(r) ==
  Handled(r) /\ req[r].kind = "battle" /\ req'[r].status = 200 /\ ~req'[r].wildcard

\* how far apart the session's effective ratings of two songs are
EffectiveGap(sid, a, b) == Abs(Resolved(sid, a) - Resolved(sid, b))

\* some song of pool other than the seed is within window of the seed
SomeWithin(sid, pool, seed, window) ==
  \E s \in pool \ {seed} : EffectiveGap(sid, s, seed) <= window

\* C22: in a matched battle one of the two songs sent, the seed, is such that the
\* other is an available song and, by the session's effective ratings (personal
\* where the session has one, global otherwise), is at most 150 from the seed if
\* some available song other than the seed is, and at most 300 from it if some
\* available song other than the seed is.
C22_RatingWindows ==
  [][\A r \in Slots :
       BattleMatchedNow(r)
         => LET sid == req[r].sid
                pool == Available(DOMAIN songs, req[r].session)
                sent == {<<req'[r].left, req'[r].right>>, <<req'[r].right, req'[r].left>>}
            IN \E pair \in sent :
                 /\ pair[1] \in pool /\ pair[2] \in pool \ {pair[1]}
                 /\ SomeWithin(sid, pool, pair[1], Window1)
                      => EffectiveGap(sid, pair[1], pair[2]) <= Window1
                 /\ SomeWithin(sid, pool, pair[1], Window2)
                      => EffectiveGap(sid, pair[1], pair[2]) <= Window2]_vars

\* a matched battle sent to a session whose personal ratings of the two songs are
\* exactly 150 apart while their global ratings are further apart
C22_Witness ==
  \E r \in Slots :
    /\ BattleDone(r) /\ req[r].status = 200 /\ ~req[r].wildcard
    /\ req["r2"].phase # "loaded"
    /\ \E id \in {req[r].left, req[r].right} : personal_ratings[<<req[r].sid, id>>].present
    /\ EffectiveGap(req[r].sid, req[r].left, req[r].right) = Window1
    /\ SentGap(r) > Window1
    /\ songs[req[r].left].global_elo = req[r].leftElo
    /\ songs[req[r].right].global_elo = req[r].rightElo

\* C23: once the server has started on a new database, every song whose id is in
\* the genre map has the genre the map gives it, and a vote answered 200 in that
\* first run has counted for the winner's genre in the session's affinity rows.
C23_GenresOnFirstRun ==
  /\ \A id \in DOMAIN songs \cap DOMAIN genreMap : songs[id].genre = genreMap[id]
  /\ \A r \in Slots :
       (VoteDone(r) /\ req[r].status = 200 /\ restarts = 0)
         => genre_affinity[<<req[r].sid, genreMap[req[r].winnerId]>>].present

\* C24: of the vote requests the client has sent for a battle, at most one has
\* not failed; and while the vote buttons are enabled, no vote request sent for
\* the battle on display is in flight or answered.
C24_OneVotePerBattle ==
  /\ \A b \in 1..MaxBattles : client.inFlight[b] + client.answered[b] <= 1
  /\ (~client.disabled /\ client.currentBattle # 0)
       => client.inFlight[client.currentBattle] + client.answered[client.currentBattle] = 0

\* C25: whatever the session's recent battles and whatever the ratings, while a
\* GET /api/battle request waits on a catalog of two songs or more, every pair of
\* distinct songs of the catalog can be the reply of the wildcard branch.
C25_EveryPairPossible ==
  \A r \in Slots :
    (BattleWaiting(r) /\ Cardinality(DOMAIN songs) >= 2)
      => \A a, b \in DOMAIN songs :
           a # b => ENABLED (/\ HandleBattle(r)
                             /\ req'[r].wildcard
                             /\ {req'[r].left, req'[r].right} = {a, b})

\* a wildcard reply with two songs that are both in the session's recent battles
\* though two other songs are not, and whose ratings are further apart than the
\* widest window
C25_Witness ==
  \E r \in Slots :
    /\ BattleDone(r)
    /\ req[r].status = 200
    /\ req[r].wildcard
    /\ {req[r].left, req[r].right} \subseteq recentSongIds(req[r].session)
    /\ Cardinality(NotRecent(r)) >= 2
    /\ SentGap(r) > Window2

\* C26: a GET /api/battle request writes nothing: when it is answered, the songs,
\* votes, personal_ratings and genre_affinity tables are what they were, no
\* personal rating row has appeared, and every session's stored recentBattles is
\* what it was.
C26_BattleReadsOnly ==
  [][\A r \in Slots :
       (Handled(r) /\ req[r].kind = "battle")
         => /\ songs' = songs
            /\ votes' = votes
            /\ personal_ratings' = personal_ratings
            /\ genre_affinity' = genre_affinity
            /\ \A sid \in Sids : StoredRecent(sid)' = StoredRecent(sid)]_vars

\* a matched battle answered to a session that has recent battles stored and has
\* voted, one of the two songs sent having no personal rating in that session
C26_Witness ==
  \E r \in Slots :
    /\ BattleDone(r)
    /\ req[r].status = 200
    /\ ~req[r].wildcard
    /\ StoredRecent(req[r].sid) # <<>>
    /\ personal_ratings[<<req[r].sid, 1>>].present
    /\ \E id \in {req[r].left, req[r].right} :
         /\ id \in DOMAIN songs
         /\ ~personal_ratings[<<req[r].sid, id>>].present

\* C27: a recorded vote between two distinct songs does not lower the winner's
\* global_elo, does not raise the loser's, and reports an eloChange from 0 to
\* kFactor = 32, both included.
C27_DeltaBounds ==
  [][\A r \in Slots :
       (VoteHandled(r) /\ req'[r].status = 200 /\ req[r].winnerId # req[r].loserId)
         => /\ songs'[req[r].winnerId].global_elo >= songs[req[r].winnerId].global_elo
            /\ songs'[req[r].loserId].global_elo <= songs[req[r].loserId].global_elo
            /\ req'[r].eloChange >= 0
            /\ req'[r].eloChange <= KFactor]_vars

\* both ends of the range have been reported: a favourite 1600 points ahead won
\* nothing, and an outsider 1600 points behind won all 32 points
C27_Witness ==
  \E r \in Slots :
    /\ VoteDone(r) /\ req[r].status = 200 /\ req[r].winnerId # req[r].loserId
    /\ \/ /\ req[r].eloChange = 0
          /\ songs[req[r].winnerId].prev_elo = songs[req[r].winnerId].global_elo
          /\ songs[req[r].loserId].prev_elo = songs[req[r].loserId].global_elo
          /\ songs[req[r].winnerId].global_elo - songs[req[r].loserId].global_elo = 1600
       \/ /\ req[r].eloChange = KFactor
          /\ songs[req[r].winnerId].global_elo - songs[req[r].winnerId].prev_elo = KFactor
          /\ songs[req[r].loserId].prev_elo - songs[req[r].loserId].global_elo = KFactor
          /\ songs[req[r].winnerId].prev_elo - songs[req[r].loserId].prev_elo = -1600

\* the sum of a column of the songs table over all its rows
ColumnSum(column) ==
  LET RECURSIVE Sum(_)
      Sum(ids) == IF ids = {} THEN 0
                  ELSE LET id == CHOOSE i \in ids : TRUE
                       IN songs[id][column] + Sum(ids \ {id})
  IN Sum(DOMAIN songs)

\* C28: from a catalog of songs all rated 1500, after any sequence of recorded
\* votes between distinct songs the global ratings still add up to 1500 times
\* the number of songs, and in the vote last recorded the winner gained exactly
\* what the loser lost.
C28_PointsConserved ==
  /\ ColumnSum("global_elo") = DefaultElo * Cardinality(DOMAIN songs)
  /\ \A r \in Slots :
       (VoteDone(r) /\ req[r].status = 200 /\ req[r].winnerId # req[r].loserId)
         => songs[req[r].winnerId].global_elo - songs[req[r].winnerId].prev_elo
              = songs[req[r].loserId].prev_elo - songs[req[r].loserId].global_elo

\* fifteen votes recorded, the last one between songs that were not level, the
\* ratings of songs 1 and 2 now more than 150 points apart
C28_Witness ==
  /\ Len(votes) = MaxSessionVotes
  /\ songs[1].global_elo - songs[2].global_elo > Window1
  /\ \E r \in Slots :
       /\ VoteDone(r) /\ req[r].status = 200
       /\ req[r].eloChange # KFactor \div 2
       /\ songs[req[r].winnerId].prev_elo # songs[req[r].loserId].prev_elo

\* C29: after any sequence of votes, recorded or rejected, from any session, the
\* total_battles of all songs add up to twice the number of rows of the votes
\* table, their total_wins add up to that number, and no song has more
\* total_wins than total_battles.
C29_CountersMatchVoteLog ==
  /\ ColumnSum("total_battles") = 2 * Len(votes)
  /\ ColumnSum("total_wins") = Len(votes)
  /\ \A id \in DOMAIN songs : songs[id].total_wins <= songs[id].total_battles

\* the votes table is full, one song has won every battle it was in, another has
\* lost one, and the request last answered was rejected
C29_Witness ==
  /\ Len(votes) = MaxVotes
  /\ \E id \in DOMAIN songs :
       songs[id].total_wins = MaxVotes /\ songs[id].total_battles = MaxVotes
  /\ \E id \in DOMAIN songs :
       songs[id].total_wins = 0 /\ songs[id].total_battles > 0
  /\ \E r \in Slots : VoteDone(r) /\ req[r].status = 400

\* C30: starting the server again on a database that holds songs leaves every
\* song's global_elo, prev_elo, total_battles and total_wins as they were, and
\* leaves the personal_ratings and genre_affinity tables as they were.
C30_RestartKeepsRatings ==
  [][(restarts' = restarts + 1 /\ DOMAIN songs # {})
       => /\ DOMAIN songs' = DOMAIN songs
          /\ \A id \in DOMAIN songs :
               /\ songs'[id].global_elo = songs[id].global_elo
               /\ songs'[id].prev_elo = songs[id].prev_elo
               /\ songs'[id].total_battles = songs[id].total_battles
               /\ songs'[id].total_wins = songs[id].total_wins
          /\ personal_ratings' = personal_ratings
          /\ genre_affinity' = genre_affinity]_vars

\* the server has been started again on a database that was migrated at its
\* first start and has since recorded votes: song 1 carries counters from the
\* migration and a rating from a vote, and the voting session has a personal
\* rating and a genre affinity
C30_Witness ==
  /\ restarts = 1
  /\ Len(votes) = MaxCrossVotes
  /\ songs[1].total_battles > songs[1].votes
  /\ songs[2].global_elo # DefaultElo
  /\ songs[2].prev_elo # songs[2].global_elo
  /\ \E sid \in Sids :
       /\ personal_ratings[<<sid, 2>>].present
       /\ genre_affinity[<<sid, genreMap[2]>>].present

====
